---- MODULE Spec2Model ----
(***************************************************************************)
(* Goals Service (app/main.py, app/schemas.py, app/models.py): the goals   *)
(* table, the five CRUD handlers and the goals_summary aggregation         *)
(* handler with its two upstream calls.                                    *)
(*                                                                         *)
(* Values.  An Optional value is a set: None is {} and a value x is {x},   *)
(* so that a nullable column, a JSON null and a JSON value of any type     *)
(* share one shape.  Floats are modelled by integers (the bounds of        *)
(* GoalValueFloat are integers).  A JSON request body is the pair of the   *)
(* keys it carries (set) and their values (val); a key it does not carry   *)
(* has the value None in val, as a pydantic field left at its default.     *)
(***************************************************************************)
EXTENDS Integers, Sequences, FiniteSets, TLC

VARIABLES
    goals,          \* the goals table: goal_id -> row (GoalDB)
    next_goal_id,   \* the primary-key generator of the goals table
    nreq,           \* number of HTTP requests accepted so far
    resp,           \* the last CRUD request and its response
    agg,            \* the frame of the current / last goals_summary call
    sresp,          \* the response of the current / last goals_summary call
    issued,         \* history: the goal_ids returned by create_goal, in order
    pristine        \* history: goal_id -> the body it was created from, while
                    \* no update or delete of it has succeeded

vars == <<goals, next_goal_id, nreq, resp, agg, sresp, issued, pristine>>

(***************************************************************************)
(* Bounds of the model.                                                    *)
(***************************************************************************)
MaxRequests == 4

(***************************************************************************)
(* app/schemas.py: the constrained types.                                  *)
(***************************************************************************)
TitleMinLength == 3
TitleMaxLength == 100
DescriptionMaxLength == 500
StatusMinLength == 3
StatusMaxLength == 50
UnitMinLength == 1
UnitMaxLength == 50
ValueGe == 0
ValueLe == 1000000

None == {}

Some(x) == {x}

\* Each is the constraint on a value that is present; None passes, and a
\* field that may not be None says so where it is declared.
GoalTitleStr(v) ==
    \A s \in v : Len(s) >= TitleMinLength /\ Len(s) <= TitleMaxLength

GoalDescriptionStr(v) ==
    \A s \in v : Len(s) <= DescriptionMaxLength

GoalStatusStr(v) ==
    \A s \in v : Len(s) >= StatusMinLength /\ Len(s) <= StatusMaxLength

GoalUnitStr(v) ==
    \A s \in v : Len(s) >= UnitMinLength /\ Len(s) <= UnitMaxLength

GoalValueFloat(v) ==
    \A x \in v : x >= ValueGe /\ x <= ValueLe

\* GoalInput: user_id and title are required, status defaults to "pending"
\* and is not Optional, the rest are Optional with default None.
GoalInputValid(body) ==
    /\ "user_id" \in body.set /\ body.val.user_id # None
    /\ "title" \in body.set /\ body.val.title # None
    /\ GoalTitleStr(body.val.title)
    /\ GoalDescriptionStr(body.val.description)
    /\ GoalValueFloat(body.val.target_value)
    /\ GoalValueFloat(body.val.current_value)
    /\ GoalUnitStr(body.val.unit)
    /\ ("status" \in body.set => body.val.status # None)
    /\ GoalStatusStr(body.val.status)

\* The parsed GoalInput: keys that are no field of it are ignored.
GoalInput(body) ==
    [user_id       |-> body.val.user_id,
     title         |-> body.val.title,
     description   |-> body.val.description,
     target_value  |-> body.val.target_value,
     current_value |-> body.val.current_value,
     unit          |-> body.val.unit,
     due_date      |-> body.val.due_date,
     status        |-> IF "status" \in body.set THEN body.val.status
                       ELSE Some("pending")]

GoalUpdateFields ==
    {"title", "description", "target_value", "current_value", "unit",
     "due_date", "status"}

\* GoalUpdate: every field Optional with default None.
GoalUpdateValid(body) ==
    /\ GoalTitleStr(body.val.title)
    /\ GoalDescriptionStr(body.val.description)
    /\ GoalValueFloat(body.val.target_value)
    /\ GoalValueFloat(body.val.current_value)
    /\ GoalUnitStr(body.val.unit)
    /\ GoalStatusStr(body.val.status)

\* The parsed GoalUpdate: its field values and model_fields_set.
GoalUpdate(body) ==
    [fields_set |-> body.set \cap GoalUpdateFields,
     val        |-> [f \in GoalUpdateFields |-> body.val[f]]]

\* GoalOutput's own constraints, applied to a row read from the table.
GoalOutputValid(row) ==
    /\ row.user_id # None
    /\ row.title # None /\ GoalTitleStr(row.title)
    /\ GoalDescriptionStr(row.description)
    /\ GoalValueFloat(row.target_value)
    /\ GoalValueFloat(row.current_value)
    /\ GoalUnitStr(row.unit)
    /\ row.status # None /\ GoalStatusStr(row.status)

GoalOutput(goal_id, row) ==
    [goal_id       |-> goal_id,
     user_id       |-> row.user_id,
     title         |-> row.title,
     description   |-> row.description,
     target_value  |-> row.target_value,
     current_value |-> row.current_value,
     unit          |-> row.unit,
     due_date      |-> row.due_date,
     status        |-> row.status]

(***************************************************************************)
(* app/models.py: the goals table.                                         *)
(***************************************************************************)
Columns ==
    {"user_id", "title", "description", "target_value", "current_value",
     "unit", "due_date", "status"}

NotNullColumns == {"user_id", "title", "status"}

\* Mutant of IntegrityOk: a table whose columns are all nullable.
IntegrityOkAllNullable(row) ==
    TRUE

\* What the table accepts at commit: nullable=False columns hold a value.
IntegrityOk(row) ==
    \A c \in NotNullColumns : row[c] # None

\* Mutant of NewGoalId: one more than the largest key now in the table, so
\* that the key of a deleted last row is given out again.
NewGoalIdMaxPlusOne ==
    IF DOMAIN goals = {} THEN 1
    ELSE 1 + (CHOOSE m \in DOMAIN goals : \A g \in DOMAIN goals : g <= m)

\* The key the table gives the next inserted row.
NewGoalId == next_goal_id

\* Mutant of GoalDB: target_value and current_value passed crosswise.
GoalDBSwapped(payload) ==
    [c \in Columns |->
        IF c = "target_value" THEN payload.current_value
        ELSE IF c = "current_value" THEN payload.target_value
        ELSE payload[c]]

\* GoalDB(user_id=payload.user_id, ...): the row create_goal builds.
GoalDB(payload) ==
    [c \in Columns |-> payload[c]]

\* Mutant of ModelDumpExcludeUnset: model_dump() without exclude_unset,
\* every field, the ones left at their default None too.
ModelDumpAll(payload) ==
    [f \in GoalUpdateFields |-> payload.val[f]]

\* payload.model_dump(exclude_unset=True): the fields the body carried.
ModelDumpExcludeUnset(payload) ==
    [f \in payload.fields_set |-> payload.val[f]]

\* for key, value in update_data.items(): setattr(goal, key, value)
SetAttrs(row, update_data) ==
    [c \in Columns |-> IF c \in DOMAIN update_data THEN update_data[c]
                       ELSE row[c]]

\* Mutant of DeleteRow: the delete is never committed.
DeleteRowNotCommitted(table, goal_id) ==
    table

\* db.delete(goal); db.commit()
DeleteRow(table, goal_id) ==
    [g \in DOMAIN table \ {goal_id} |-> table[g]]

\* Mutant of Query: the filter is dropped.
QueryNoFilter(table, user_id) ==
    DOMAIN table

\* db.query(GoalDB), with .filter(GoalDB.user_id == user_id) when a
\* user_id is given: the keys of the rows selected.
Query(table, user_id) ==
    {g \in DOMAIN table : user_id = None \/ table[g].user_id = user_id}

Min(S) == CHOOSE m \in S : \A x \in S : m <= x

\* .all(): the selected rows in the table's own order, by primary key.
RECURSIVE All(_, _)
All(table, ids) ==
    IF ids = {} THEN <<>>
    ELSE LET g == Min(ids)
         IN  <<GoalOutput(g, table[g])>> \o All(table, ids \ {g})

Range(seq) == {seq[i] : i \in DOMAIN seq}

(***************************************************************************)
(* Responses.                                                              *)
(***************************************************************************)
Response(op, req, status, body) ==
    [seq |-> nreq + 1, op |-> op, req |-> req, status |-> status,
     body |-> body]

HTTPException(status, detail) ==
    [status |-> status, detail |-> detail]

\* An exception no handler catches.
InternalServerError == HTTPException(500, "Internal Server Error")

\* Request validation failed before the handler was called.
Unprocessable == HTTPException(422, "validation error")

\* response_model=GoalOutput: the row is validated on its way out.
GoalResponse(op, req, status, goal_id, row) ==
    IF GoalOutputValid(row)
    THEN Response(op, req, status, GoalOutput(goal_id, row))
    ELSE Response(op, req, 500, InternalServerError)

(***************************************************************************)
(* The requests the model sends.                                           *)
(***************************************************************************)
BodyKeys == Columns \cup {"goal_id"}

\* A JSON object given as its key/value pairs.
JsonBody(pairs) ==
    [set |-> {pairs[i][1] : i \in DOMAIN pairs},
     val |-> [k \in BodyKeys |->
                IF \E i \in DOMAIN pairs : pairs[i][1] = k
                THEN pairs[CHOOSE i \in DOMAIN pairs : pairs[i][1] = k][2]
                ELSE None]]

RECURSIVE Rep(_, _)
Rep(c, n) ==
    IF n = 0 THEN ""
    ELSE IF n % 2 = 0 THEN LET h == Rep(c, n \div 2) IN h \o h
    ELSE c \o Rep(c, n - 1)

UserIds == {1, 2}

CreateBodies ==
    { \* the least a goal needs
      JsonBody(<< <<"user_id", {1}>>, <<"title", {"abc"}>> >>),
      \* every field, at the upper ends of the ranges
      JsonBody(<< <<"user_id", {2}>>, <<"title", {Rep("t", TitleMaxLength)}>>,
                  <<"description", {"far"}>>, <<"target_value", {ValueLe}>>,
                  <<"current_value", {ValueGe}>>, <<"unit", {"k"}>>,
                  <<"due_date", {"2026-12-31"}>>, <<"status", {"new"}>>,
                  <<"goal_id", {7}>> >>),
      \* explicit nulls for Optional fields
      JsonBody(<< <<"user_id", {1}>>, <<"title", {"swim"}>>,
                  <<"description", None>>, <<"target_value", None>> >>),
      \* rejected
      JsonBody(<< <<"user_id", {1}>>, <<"title", {"ab"}>> >>),
      JsonBody(<< <<"user_id", {1}>>,
                  <<"title", {Rep("t", TitleMaxLength + 1)}>> >>),
      JsonBody(<< <<"title", {"abc"}>> >>),
      JsonBody(<< <<"user_id", None>>, <<"title", {"abc"}>> >>),
      JsonBody(<< <<"user_id", {1}>>, <<"title", None>> >>),
      JsonBody(<< <<"user_id", {1}>>, <<"title", {"abc"}>>,
                  <<"target_value", {ValueLe + 1}>> >>),
      JsonBody(<< <<"user_id", {1}>>, <<"title", {"abc"}>>,
                  <<"current_value", {ValueGe - 1}>> >>),
      JsonBody(<< <<"user_id", {1}>>, <<"title", {"abc"}>>,
                  <<"status", {"ok"}>> >>),
      JsonBody(<< <<"user_id", {1}>>, <<"title", {"abc"}>>,
                  <<"status", None>> >>),
      JsonBody(<< <<"user_id", {1}>>, <<"title", {"abc"}>>,
                  <<"unit", {""}>> >>),
      JsonBody(<< <<"user_id", {1}>>, <<"title", {"abc"}>>,
                  <<"description",
                    {Rep("d", DescriptionMaxLength + 1)}>> >>) }

UpdateBodies ==
    { JsonBody(<< >>),
      JsonBody(<< <<"status", {"completed"}>> >>),
      JsonBody(<< <<"title", {"run"}>>, <<"current_value", {5}>>,
                  <<"status", {"active"}>> >>),
      \* keys that are no field of GoalUpdate
      JsonBody(<< <<"user_id", {2}>>, <<"goal_id", {9}>>,
                  <<"unit", {"km"}>> >>),
      \* explicit nulls
      JsonBody(<< <<"description", None>>, <<"target_value", None>> >>),
      JsonBody(<< <<"title", None>> >>),
      JsonBody(<< <<"status", None>>, <<"description", {"x"}>> >>),
      \* rejected
      JsonBody(<< <<"title", {"ab"}>> >>),
      JsonBody(<< <<"status", {"ok"}>> >>),
      JsonBody(<< <<"target_value", {ValueLe + 1}>> >>) }

\* Ids a request can name: stored, deleted and never issued ones.
GoalIds == 1 .. next_goal_id

(***************************************************************************)
(* The upstream services, as the answers an httpx call can end in.         *)
(***************************************************************************)
RequestError(error) ==
    [kind |-> "RequestError", error |-> error, status_code |-> 0,
     json |-> None]

\* json is None when the body is not JSON, so that .json() raises.
HttpResponse(status_code, json) ==
    [kind |-> "Response", error |-> "", status_code |-> status_code,
     json |-> json]

NoResult ==
    [kind |-> "none", error |-> "", status_code |-> 0, json |-> None]

UserServiceResults(user_id) ==
    { RequestError("ConnectError"), RequestError("ReadTimeout"),
      HttpResponse(200, Some([user_id |-> user_id, name |-> "u"])),
      HttpResponse(200, None),
      HttpResponse(301, None),
      HttpResponse(404, None),
      HttpResponse(500, None) }

WorkoutServiceResults(user_id) ==
    { RequestError("ConnectError"), RequestError("ReadTimeout"),
      HttpResponse(200, Some(<<[workout_id |-> 1, user_id |-> user_id]>>)),
      HttpResponse(200, Some(<< >>)),
      HttpResponse(200, None),
      HttpResponse(404, Some(<<[detail |-> "Not Found"]>>)),
      HttpResponse(503, None) }

\* Response.raise_for_status() raises HTTPStatusError unless is_success.
IsSuccess(res) ==
    res.kind = "Response" /\ res.status_code >= 200 /\ res.status_code <= 299

(***************************************************************************)
(* Initial state: an empty table, no request yet.                          *)
(***************************************************************************)
NoResponse ==
    [seq |-> 0, op |-> "none", req |-> << >>, status |-> 0, body |-> << >>]

IdleFrame ==
    [pc |-> "idle", user_id |-> 0, user_res |-> NoResult,
     user_data |-> None, goals_list |-> << >>, workouts_res |-> NoResult,
     calls |-> << >>]

Init ==
    /\ goals = << >>
    /\ next_goal_id = 1
    /\ nreq = 0
    /\ resp = NoResponse
    /\ agg = IdleFrame
    /\ sresp = NoResponse
    /\ issued = << >>
    /\ pristine = << >>

(***************************************************************************)
(* POST /goals                                                             *)
(***************************************************************************)
CreateGoal(body) ==
    /\ nreq < MaxRequests
    /\ nreq' = nreq + 1
    /\ IF ~GoalInputValid(body)
       THEN /\ resp' = Response("create_goal", [body |-> body], 422,
                                Unprocessable)
            /\ UNCHANGED <<goals, next_goal_id, issued, pristine>>
       ELSE LET payload == GoalInput(body)
                goal == GoalDB(payload)
                goal_id == NewGoalId
            IN  IF ~IntegrityOk(goal) \/ goal_id \in DOMAIN goals
                THEN /\ resp' = Response("create_goal", [body |-> body], 500,
                                         InternalServerError)
                     /\ UNCHANGED <<goals, next_goal_id, issued, pristine>>
                ELSE /\ goals' = [g \in DOMAIN goals \cup {goal_id} |->
                                    IF g = goal_id THEN goal ELSE goals[g]]
                     /\ next_goal_id' = next_goal_id + 1
                     /\ resp' = GoalResponse("create_goal", [body |-> body],
                                             201, goal_id, goal)
                     /\ issued' = Append(issued, goal_id)
                     /\ pristine' = [g \in DOMAIN pristine \cup {goal_id} |->
                                       IF g = goal_id THEN body
                                       ELSE pristine[g]]
    /\ UNCHANGED <<agg, sresp>>

(***************************************************************************)
(* GET /goals                                                              *)
(***************************************************************************)
ListGoals(user_id) ==
    /\ nreq < MaxRequests
    /\ nreq' = nreq + 1
    /\ LET rows == All(goals, Query(goals, user_id))
           req == [user_id |-> user_id]
       IN  resp' = IF \A g \in Query(goals, user_id) : GoalOutputValid(goals[g])
                   THEN Response("list_goals", req, 200, rows)
                   ELSE Response("list_goals", req, 500, InternalServerError)
    /\ UNCHANGED <<goals, next_goal_id, agg, sresp, issued, pristine>>

(***************************************************************************)
(* GET /goals/{goal_id}                                                    *)
(***************************************************************************)
GetGoal(goal_id) ==
    /\ nreq < MaxRequests
    /\ nreq' = nreq + 1
    /\ resp' = IF goal_id \notin DOMAIN goals
               THEN Response("get_goal", [goal_id |-> goal_id], 404,
                             HTTPException(404, "Goal not found"))
               ELSE GoalResponse("get_goal", [goal_id |-> goal_id], 200,
                                 goal_id, goals[goal_id])
    /\ UNCHANGED <<goals, next_goal_id, agg, sresp, issued, pristine>>

(***************************************************************************)
(* PUT /goals/{goal_id}                                                    *)
(***************************************************************************)
UpdateGoal(goal_id, body) ==
    /\ nreq < MaxRequests
    /\ nreq' = nreq + 1
    /\ LET req == [goal_id |-> goal_id, body |-> body]
       IN  IF ~GoalUpdateValid(body)
           THEN /\ resp' = Response("update_goal", req, 422, Unprocessable)
                /\ UNCHANGED <<goals, pristine>>
           ELSE IF goal_id \notin DOMAIN goals
           THEN /\ resp' = Response("update_goal", req, 404,
                                    HTTPException(404, "Goal not found"))
                /\ UNCHANGED <<goals, pristine>>
           ELSE LET payload == GoalUpdate(body)
                    update_data == ModelDumpExcludeUnset(payload)
                    goal == SetAttrs(goals[goal_id], update_data)
                IN  IF ~IntegrityOk(goal)
                    THEN \* db.commit() raises IntegrityError; nothing is
                         \* written
                         /\ resp' = Response("update_goal", req, 500,
                                             InternalServerError)
                         /\ UNCHANGED <<goals, pristine>>
                    ELSE /\ goals' = [goals EXCEPT ![goal_id] = goal]
                         /\ resp' = GoalResponse("update_goal", req, 200,
                                                 goal_id, goal)
                         /\ pristine' = [g \in DOMAIN pristine \ {goal_id}
                                           |-> pristine[g]]
    /\ UNCHANGED <<next_goal_id, agg, sresp, issued>>

(***************************************************************************)
(* DELETE /goals/{goal_id}                                                 *)
(***************************************************************************)
DeleteGoal(goal_id) ==
    /\ nreq < MaxRequests
    /\ nreq' = nreq + 1
    /\ IF goal_id \notin DOMAIN goals
       THEN /\ resp' = Response("delete_goal", [goal_id |-> goal_id], 404,
                                HTTPException(404, "Goal not found"))
            /\ UNCHANGED <<goals, pristine>>
       ELSE /\ goals' = DeleteRow(goals, goal_id)
            /\ resp' = Response("delete_goal", [goal_id |-> goal_id], 204,
                                << >>)
            /\ pristine' = [g \in DOMAIN pristine \ {goal_id}
                              |-> pristine[g]]
    /\ UNCHANGED <<next_goal_id, agg, sresp, issued>>

(***************************************************************************)
(* GET /api/goals-summary/{user_id}, in three steps: the handler blocks in *)
(* each of its two httpx calls, and requests of other clients are served   *)
(* meanwhile.                                                              *)
(***************************************************************************)
TheValue(v) == CHOOSE x \in v : TRUE

SummaryResponse(user_id, status, body) ==
    [seq |-> nreq + 1, op |-> "goals_summary", req |-> [user_id |-> user_id],
     status |-> status, body |-> body]

\* Mutant of UserServiceError: every HTTPStatusError mapped to 502.
UserServiceErrorAlways502(user_res) ==
    IF user_res.kind = "RequestError"
    THEN HTTPException(502, <<"Error contacting user service",
                              user_res.error>>)
    ELSE HTTPException(502, <<"User service error", user_res.json>>)

\* The except clauses of step 1: what a failed User Service call raises.
UserServiceError(user_res) ==
    IF user_res.kind = "RequestError"
    THEN HTTPException(502, <<"Error contacting user service",
                              user_res.error>>)
    ELSE IF user_res.status_code = 404
    THEN HTTPException(404, "User not found")
    ELSE HTTPException(502, <<"User service error", user_res.json>>)

\* Mutant of WorkoutsData: raise_for_status() left out, so the body of an
\* error response is taken for the workouts.
WorkoutsDataNoRaiseForStatus(workouts_res) ==
    IF workouts_res.kind = "Response" /\ workouts_res.json # None
    THEN TheValue(workouts_res.json)
    ELSE << >>

\* The try block of step 3 and its except clauses: workouts_data.
WorkoutsData(workouts_res) ==
    IF IsSuccess(workouts_res) THEN TheValue(workouts_res.json) ELSE << >>

\* Mutant of GoalsSummaryCallUser: a failed call is answered, but the
\* handler goes on to its next step.
GoalsSummaryCallUserNoAbort(user_id, user_res) ==
    /\ agg.pc = "idle"
    /\ nreq < MaxRequests
    /\ nreq' = nreq + 1
    /\ agg' = [IdleFrame EXCEPT !.pc = "goals", !.user_id = user_id,
                                !.user_res = user_res,
                                !.user_data = IF user_res.json = None
                                              THEN Some(<< >>)
                                              ELSE user_res.json,
                                !.calls = <<"user">>]
    /\ sresp' = IF IsSuccess(user_res)
                THEN SummaryResponse(user_id, 0, << >>)
                ELSE SummaryResponse(user_id, 502, InternalServerError)
    /\ UNCHANGED <<goals, next_goal_id, resp, issued, pristine>>

\* 1) Call USER service
GoalsSummaryCallUser(user_id, user_res) ==
    /\ agg.pc = "idle"
    /\ nreq < MaxRequests
    /\ nreq' = nreq + 1
    /\ LET frame == [IdleFrame EXCEPT !.user_id = user_id,
                                      !.user_res = user_res,
                                      !.calls = <<"user">>]
       IN  IF ~IsSuccess(user_res)
           THEN LET exc == UserServiceError(user_res)
                IN  /\ agg' = frame
                    /\ sresp' = SummaryResponse(user_id, exc.status, exc)
           ELSE IF user_res.json = None
           THEN \* user_res.json() raises
                /\ agg' = frame
                /\ sresp' = SummaryResponse(user_id, 500, InternalServerError)
           ELSE /\ agg' = [frame EXCEPT !.pc = "goals",
                                        !.user_data = user_res.json]
                /\ sresp' = SummaryResponse(user_id, 0, << >>)
    /\ UNCHANGED <<goals, next_goal_id, resp, issued, pristine>>

\* 2) Get goals locally from this service's own DB
GoalsSummaryQueryGoals ==
    /\ agg.pc = "goals"
    /\ LET ids == Query(goals, Some(agg.user_id))
       IN  IF \A g \in ids : GoalOutputValid(goals[g])
           THEN /\ agg' = [agg EXCEPT !.pc = "workouts",
                                      !.goals_list = All(goals, ids),
                                      !.calls = Append(@, "goals")]
                /\ UNCHANGED sresp
           ELSE \* GoalOutput.model_validate(g) raises
                /\ agg' = [agg EXCEPT !.pc = "idle",
                                      !.calls = Append(@, "goals")]
                /\ sresp' = [sresp EXCEPT !.status = 500,
                                          !.body = InternalServerError]
    /\ UNCHANGED <<goals, next_goal_id, nreq, resp, issued, pristine>>

\* 3) Call WORKOUT service to get this user's workouts (optional)
GoalsSummaryCallWorkouts(workouts_res) ==
    /\ agg.pc = "workouts"
    /\ agg' = [agg EXCEPT !.pc = "idle", !.workouts_res = workouts_res,
                          !.calls = Append(@, "workouts")]
    /\ IF IsSuccess(workouts_res) /\ workouts_res.json = None
       THEN \* workouts_res.json() raises, and no except clause catches it
            sresp' = [sresp EXCEPT !.status = 500,
                                   !.body = InternalServerError]
       ELSE sresp' = [sresp EXCEPT
                        !.status = 200,
                        !.body = [user     |-> TheValue(agg.user_data),
                                  goals    |-> agg.goals_list,
                                  workouts |-> WorkoutsData(workouts_res)]]
    /\ UNCHANGED <<goals, next_goal_id, nreq, resp, issued, pristine>>

(***************************************************************************)
(* The service: any request at any time.                                   *)
(***************************************************************************)
Next ==
    \/ \E body \in CreateBodies : CreateGoal(body)
    \/ \E user_id \in {None} \cup {Some(u) : u \in UserIds} :
          ListGoals(user_id)
    \/ \E goal_id \in GoalIds : GetGoal(goal_id)
    \/ \E goal_id \in GoalIds, body \in UpdateBodies :
          UpdateGoal(goal_id, body)
    \/ \E goal_id \in GoalIds : DeleteGoal(goal_id)
    \/ \E user_id \in UserIds :
          \E user_res \in UserServiceResults(user_id) :
             GoalsSummaryCallUser(user_id, user_res)
    \/ GoalsSummaryQueryGoals
    \/ \E workouts_res \in WorkoutServiceResults(agg.user_id) :
          GoalsSummaryCallWorkouts(workouts_res)

Spec == Init /\ [][Next]_vars

(***************************************************************************)
(* Properties.                                                             *)
(***************************************************************************)
\* An upstream answer that is not a successful response.
Failed(res) ==
    \/ res.kind = "RequestError"
    \/ res.kind = "Response" /\ res.status_code \notin 200 .. 299

CallOrder == <<"user", "goals", "workouts">>

IsPrefix(s, t) ==
    Len(s) <= Len(t) /\ \A i \in 1 .. Len(s) : s[i] = t[i]

\* The last goals_summary call has got to its Workout Service call.
WorkoutsCalled == Len(agg.calls) = Len(CallOrder)

\* C1: when the User Service call of goals_summary fails, the request is
\* answered at once with a fixed status: 502 for a transport failure or a
\* timeout, 404 with detail "User not found" for an upstream 404, 502 for
\* any other non-2xx status; never 200, whatever the goals table holds.
C1_UserFailureAborts ==
    Failed(agg.user_res) =>
        /\ agg.pc = "idle"
        /\ sresp.op = "goals_summary"
        /\ sresp.req.user_id = agg.user_id
        /\ sresp.status # 200
        /\ DOMAIN sresp.body = {"status", "detail"}
        /\ agg.user_res.kind = "RequestError" => sresp.status = 502
        /\ (agg.user_res.kind = "Response" /\ agg.user_res.status_code = 404)
              => sresp.status = 404 /\ sresp.body.detail = "User not found"
        /\ (agg.user_res.kind = "Response" /\ agg.user_res.status_code # 404)
              => sresp.status = 502

\* The User Service answered 404 for a user who has goals stored.
C1_Witness ==
    /\ agg.user_res.kind = "Response" /\ agg.user_res.status_code = 404
    /\ sresp.status = 404
    /\ \E g \in DOMAIN goals : goals[g].user_id = Some(agg.user_id)

\* C2: when the Workout Service call of goals_summary ends in anything but
\* a successful response (transport error, timeout, non-2xx status), the
\* request is answered 200 with workouts the empty sequence, the user as
\* the User Service returned it, the goals the query read, and nothing
\* else in the body.
C2_WorkoutFailureDegrades ==
    (WorkoutsCalled /\ Failed(agg.workouts_res)) =>
        /\ sresp.op = "goals_summary"
        /\ sresp.req.user_id = agg.user_id
        /\ sresp.status = 200
        /\ DOMAIN sresp.body = {"user", "goals", "workouts"}
        /\ sresp.body.workouts = << >>
        /\ Some(sresp.body.user) = agg.user_res.json
        /\ sresp.body.goals = agg.goals_list

\* The Workout Service could not be reached, for a user who has goals.
C2_Witness ==
    /\ WorkoutsCalled
    /\ agg.workouts_res.kind = "RequestError"
    /\ sresp.status = 200
    /\ Len(sresp.body.goals) > 0

\* C3: the sub-calls of one goals_summary request are a prefix of User
\* Service call, Goal Store query, Workout Service call, each made at most
\* once; the last two only after the User Service call succeeded, and
\* neither of them when it failed.
C3_CallOrder ==
    /\ IsPrefix(agg.calls, CallOrder)
    /\ Len(agg.calls) >= 2 =>
          (agg.user_res.kind = "Response"
             /\ agg.user_res.status_code \in 200 .. 299)
    /\ Failed(agg.user_res) => agg.calls = <<"user">>
    /\ agg.pc = "goals" => agg.calls = <<"user">>
    /\ agg.pc = "workouts" => agg.calls = <<"user", "goals">>

\* The User Service call failed for a user who has goals stored, and the
\* request is over.
C3_Witness ==
    /\ agg.user_res.kind = "RequestError"
    /\ agg.calls = <<"user">>
    /\ agg.pc = "idle"
    /\ sresp.status = 502
    /\ \E g \in DOMAIN goals : goals[g].user_id = Some(agg.user_id)

\* This step handled a CRUD request of the given operation.
Handled(op) ==
    resp'.seq # resp.seq /\ resp'.op = op

\* C4: update_goal on a stored goal_id leaves every field the body does
\* not carry as it was (never reset to null), leaves goal_id and user_id
\* and every other stored goal as they were, and when it answers 200 the
\* fields the body carries hold the body's values.
C4_UpdateStep ==
    (Handled("update_goal") /\ resp'.req.goal_id \in DOMAIN goals) =>
        LET goal_id == resp'.req.goal_id
            body == resp'.req.body
        IN  /\ DOMAIN goals' = DOMAIN goals
            /\ \A g \in DOMAIN goals \ {goal_id} : goals'[g] = goals[g]
            /\ goals'[goal_id].user_id = goals[goal_id].user_id
            /\ \A f \in Columns \ body.set :
                  goals'[goal_id][f] = goals[goal_id][f]
            /\ resp'.status = 200 =>
                  /\ \A f \in (body.set \cap Columns) \ {"user_id"} :
                        goals'[goal_id][f] = body.val[f]
                  /\ resp'.body.goal_id = goal_id
                  /\ \A f \in Columns : resp'.body[f] = goals'[goal_id][f]

C4_UpdateChangesOnlyGivenFields == [][C4_UpdateStep]_vars

\* An update carrying only status was answered 200; the goal now has the
\* new status and still has its other fields.
C4_Witness ==
    /\ resp.op = "update_goal" /\ resp.status = 200
    /\ resp.req.body.set = {"status"}
    /\ resp.body.status = Some("completed")
    /\ resp.body.description # None
    /\ goals[resp.req.goal_id].description = resp.body.description

\* C5: every goal_id create_goal returns is a positive integer that no
\* earlier create_goal returned, the ids of goals deleted since included.
C5_GoalIdsNeverReissued ==
    /\ \A i \in DOMAIN issued :
          /\ issued[i] > 0
          /\ \A j \in DOMAIN issued : j # i => issued[j] # issued[i]
    /\ DOMAIN goals \subseteq Range(issued)
    /\ (resp.op = "create_goal" /\ resp.status = 201) =>
          resp.body.goal_id = issued[Len(issued)]

\* A goal was created after the deletion of an earlier one.
C5_Witness ==
    /\ resp.op = "create_goal" /\ resp.status = 201
    /\ Len(issued) >= 2
    /\ \E i \in DOMAIN issued : issued[i] \notin DOMAIN goals

\* C6: every stored goal has exactly one non-null user_id, a title of 3 to
\* 100 characters, a status of 3 to 50 characters, and target_value and
\* current_value each null or within [0, 1000000].
C6_StoredGoalsValid ==
    \A g \in DOMAIN goals :
        /\ Cardinality(goals[g].user_id) = 1
        /\ Cardinality(goals[g].title) = 1
        /\ \A t \in goals[g].title : Len(t) \in 3 .. 100
        /\ Cardinality(goals[g].status) = 1
        /\ \A t \in goals[g].status : Len(t) \in 3 .. 50
        /\ Cardinality(goals[g].target_value) <= 1
        /\ \A x \in goals[g].target_value : x \in 0 .. 1000000
        /\ Cardinality(goals[g].current_value) <= 1
        /\ \A x \in goals[g].current_value : x \in 0 .. 1000000

\* An update carrying an explicit null for title has just been handled on
\* a stored goal.
C6_Witness ==
    /\ resp.op = "update_goal"
    /\ resp.req.goal_id \in DOMAIN goals
    /\ "title" \in resp.req.body.set
    /\ resp.req.body.val.title = None

\* C7: get_goal, update_goal and delete_goal, called with a goal_id that
\* matches no stored goal, answer 404 with detail "Goal not found" and
\* leave the table as it was; called with one that matches a stored goal
\* they answer 200, 200 and 204.  (A body that fails validation is
\* answered 422 before the handler is called.)
C7_ByIdStep ==
    \A op \in {"get_goal", "update_goal", "delete_goal"} :
        (Handled(op) /\ resp'.status # 422) =>
            IF resp'.req.goal_id \notin DOMAIN goals
            THEN /\ resp'.status = 404
                 /\ resp'.body.detail = "Goal not found"
                 /\ goals' = goals
            ELSE resp'.status = IF op = "delete_goal" THEN 204 ELSE 200

C7_ByIdStatus == [][C7_ByIdStep]_vars

\* The part of C7 about ids that match no stored goal.
C7_NotFoundStep ==
    \A op \in {"get_goal", "update_goal", "delete_goal"} :
        (Handled(op) /\ resp'.status # 422
           /\ resp'.req.goal_id \notin DOMAIN goals) =>
            /\ resp'.status = 404
            /\ resp'.body.detail = "Goal not found"
            /\ goals' = goals

C7_NotFound == [][C7_NotFoundStep]_vars

\* rows holds exactly the stored goals of table that a user_id filter
\* selects (all of them when the filter is None), each once, with the
\* stored values.
ExactlyGoalsOf(rows, table, user_id) ==
    /\ \A i \in DOMAIN rows :
          /\ rows[i].goal_id \in DOMAIN table
          /\ user_id # None => rows[i].user_id = user_id
          /\ \A f \in Columns : rows[i][f] = table[rows[i].goal_id][f]
          /\ \A j \in DOMAIN rows : j # i => rows[j].goal_id # rows[i].goal_id
    /\ \A g \in DOMAIN table :
          (user_id = None \/ table[g].user_id = user_id) =>
              \E i \in DOMAIN rows : rows[i].goal_id = g

\* C8: list_goals with a user_id filter, and the Goal Store query of
\* goals_summary, return exactly the stored goals of that user (the empty
\* sequence when there are none, with status 200); list_goals without a
\* filter returns every stored goal; a successful goals_summary answers
\* with the goals its query read; none of these steps changes the table.
C8_ReadStep ==
    /\ Handled("list_goals") =>
          /\ resp'.status = 200
          /\ ExactlyGoalsOf(resp'.body, goals, resp'.req.user_id)
          /\ goals' = goals
    /\ (agg.pc = "goals" /\ agg'.pc = "workouts") =>
          /\ ExactlyGoalsOf(agg'.goals_list, goals, Some(agg.user_id))
          /\ goals' = goals
    /\ (agg.pc = "workouts" /\ agg'.pc = "idle" /\ sresp'.status = 200) =>
          /\ sresp'.body.goals = agg.goals_list
          /\ goals' = goals
    /\ agg' # agg => goals' = goals

C8_GoalsOfUser == [][C8_ReadStep]_vars

\* goals_summary answered 200 with one goal while the table holds a goal
\* of another user as well.
C8_Witness ==
    /\ sresp.status = 200
    /\ Len(sresp.body.goals) = 1
    /\ \E g \in DOMAIN goals : goals[g].user_id # Some(agg.user_id)
    /\ \E g \in DOMAIN goals : goals[g].user_id = Some(agg.user_id)

\* What get_goal is to return for a goal created from body: the values
\* submitted, null for an Optional field left out, "pending" for a status
\* left out.
Submitted(goal_id, body) ==
    [goal_id       |-> goal_id,
     user_id       |-> body.val.user_id,
     title         |-> body.val.title,
     description   |-> IF "description" \in body.set
                       THEN body.val.description ELSE None,
     target_value  |-> IF "target_value" \in body.set
                       THEN body.val.target_value ELSE None,
     current_value |-> IF "current_value" \in body.set
                       THEN body.val.current_value ELSE None,
     unit          |-> IF "unit" \in body.set THEN body.val.unit ELSE None,
     due_date      |-> IF "due_date" \in body.set
                       THEN body.val.due_date ELSE None,
     status        |-> IF "status" \in body.set THEN body.val.status
                       ELSE Some("pending")]

\* C9: from the create_goal that returned goal_id g until an update or a
\* delete of g succeeds, g is stored with the values submitted, create_goal
\* returned them and every get_goal(g) returns them, whatever is done to
\* other goals meanwhile.
C9_RoundTrip ==
    \A g \in DOMAIN pristine :
        LET expected == Submitted(g, pristine[g])
        IN  /\ g \in DOMAIN goals
            /\ \A f \in Columns : goals[g][f] = expected[f]
            /\ (resp.op = "get_goal" /\ resp.req.goal_id = g) =>
                  resp.status = 200 /\ resp.body = expected
            /\ (resp.op = "create_goal" /\ resp.status = 201
                   /\ resp.body.goal_id = g) =>
                  resp.body = expected

\* get_goal has returned a goal created without a status, after another
\* goal was created and updated.
C9_Witness ==
    /\ resp.op = "get_goal" /\ resp.status = 200
    /\ resp.req.goal_id \in DOMAIN pristine
    /\ "status" \notin pristine[resp.req.goal_id].set
    /\ resp.body.status = Some("pending")
    /\ \E h \in DOMAIN goals : h \notin DOMAIN pristine

\* Ids that were issued and are no longer stored.
Deleted == Range(issued) \ DOMAIN goals

\* C10: a delete_goal(g) answered 204 removes exactly the goal g and
\* leaves every other stored goal as it was; a get_goal(g) handled next
\* answers 404; and no list_goals result, nor the goals a goals_summary
\* query reads, holds the id of a deleted goal.
C10_DeleteStep ==
    /\ (Handled("delete_goal") /\ resp'.status = 204) =>
          LET g == resp'.req.goal_id
          IN  /\ g \in DOMAIN goals
              /\ DOMAIN goals' = DOMAIN goals \ {g}
              /\ \A h \in DOMAIN goals' : goals'[h] = goals[h]
    /\ (resp.op = "delete_goal" /\ resp.status = 204
          /\ Handled("get_goal") /\ resp'.req.goal_id = resp.req.goal_id) =>
          resp'.status = 404
    /\ (Handled("list_goals") /\ resp'.status = 200) =>
          \A i \in DOMAIN resp'.body : resp'.body[i].goal_id \notin Deleted
    /\ (agg.pc = "goals" /\ agg'.pc = "workouts") =>
          \A i \in DOMAIN agg'.goals_list :
              agg'.goals_list[i].goal_id \notin Deleted

C10_HardDelete == [][C10_DeleteStep]_vars

\* get_goal answered 404 for the id of a deleted goal while another goal
\* is still stored.
C10_Witness ==
    /\ resp.op = "get_goal" /\ resp.status = 404
    /\ resp.req.goal_id \in Deleted
    /\ DOMAIN goals # {}

====
